---- MODULE Spec2Model ----
(***************************************************************************)
(* Model of modulo_ejemplo/models/producto.py: the Odoo model mi.producto. *)
(*                                                                         *)
(* db holds the committed rows of mi.producto, keyed by record id.  One    *)
(* action is one call of a method of Producto inside one transaction of    *)
(* the ORM: an exception raised anywhere in the call rolls the whole       *)
(* transaction back, so db is left as it was and last.res names the        *)
(* exception.                                                              *)
(*                                                                         *)
(* Representation of values:                                               *)
(*   - Char/Text values are strings; a NULL column (read as False) is the  *)
(*     string NULL; a Many2one is the id of its target, 0 when empty;      *)
(*   - precio_unitario, subtotal and iva are Floats holding whole numbers; *)
(*     total is kept in hundredths, so that subtotal * (1 + iva / 100) is  *)
(*     the integer subtotal * (100 + iva) (12.1 is 1210).                  *)
(***************************************************************************)
EXTENDS Integers, Sequences, FiniteSets, TLC

VARIABLES db, next_id, last, form

vars == <<db, next_id, last, form>>

(* ------------------------------ bounds ------------------------------- *)

\* ids the sequence of mi.producto hands out in one behaviour, to the rows
\* committed and to the INSERTs refused alike, hence also the most rows
\* alive at the same time
MaxIds == 3

(* --------------------------- field schema ---------------------------- *)

NULL == "<NULL>"

StoredFields ==
    {"nombre", "descripcion", "precio_unitario", "cantidad", "iva",
     "activo", "categoria_id", "tipo"}

Get(f, k, d) == IF k \in DOMAIN f THEN f[k] ELSE d

\* dict.update: the keys of over win
Overlay(base, over) ==
    [k \in DOMAIN base \cup DOMAIN over |->
        IF k \in DOMAIN over THEN over[k] ELSE base[k]]

Restrict(f, keys) == [k \in DOMAIN f \cap keys |-> f[k]]

_default_precio_unitario == 10

\* the default= of the field declarations
FieldDefaults ==
    [precio_unitario |-> _default_precio_unitario,
     cantidad        |-> 1,
     iva             |-> 21,
     activo          |-> TRUE,
     tipo            |-> "fisico"]

\* (mutant of default_get) super().default_get is not called
default_get_no_super(fields_list) == [cantidad |-> 1]

\* Producto.default_get: super().default_get(fields_list), then cantidad = 1
default_get(fields_list) ==
    Overlay(Restrict(FieldDefaults, fields_list), [cantidad |-> 1])

\* create: the fields missing from vals take default_get's values; the
\* values given are never overridden
AddMissingDefaults(vals) ==
    Overlay(default_get(StoredFields \ DOMAIN vals), vals)

(* ------------------------- computed fields --------------------------- *)

_compute_subtotal(r) ==
    [r EXCEPT !.subtotal = r.precio_unitario * r.cantidad]

\* in hundredths
_compute_total(r) ==
    [r EXCEPT !.total = r.subtotal * (100 + r.iva)]

\* (mutant of Recompute) total computed before subtotal
Recompute_stale(r) == _compute_subtotal(_compute_total(r))

\* the recomputation pass: subtotal (depends on precio_unitario, cantidad)
\* before total (depends on subtotal, iva)
Recompute(r) == _compute_total(_compute_subtotal(r))

\* the row of a record from its stored values; a column without a value is
\* NULL and reads as False / 0
Row(full) ==
    Recompute(
        [nombre          |-> Get(full, "nombre", NULL),
         descripcion     |-> Get(full, "descripcion", NULL),
         precio_unitario |-> Get(full, "precio_unitario", 0),
         cantidad        |-> Get(full, "cantidad", 0),
         subtotal        |-> 0,
         iva             |-> Get(full, "iva", 0),
         total           |-> 0,
         activo          |-> Get(full, "activo", FALSE),
         categoria_id    |-> Get(full, "categoria_id", 0),
         tipo            |-> Get(full, "tipo", NULL)])

(* --------------------------- constraints ----------------------------- *)

\* @api.constrains("precio_unitario", "cantidad"): TRUE when the method
\* raises for one of the rows
_check_valores(rows) ==
    \E r \in rows : r.precio_unitario < 0 \/ r.cantidad < 0

\* nombre = fields.Char(required=True): NOT NULL, which the empty string
\* passes
nombre_required(d) == \A i \in DOMAIN d : d[i].nombre # NULL

\* _sql_constraints: unique(nombre)
nombre_uniq(d) ==
    \A i, j \in DOMAIN d : i # j => d[i].nombre # d[j].nombre

(* ------------------------- ORM operations ---------------------------- *)

\* A recordset (self) is the sequence of its ids, in the order the caller
\* built it; Range is the set of its records.
Range(self) == {self[k] : k \in DOMAIN self}

Extend(d, i, r) == [j \in DOMAIN d \cup {i} |-> IF j = i THEN r ELSE d[j]]

\* the stored fields of vals written over row r; a computed field without
\* store or inverse (subtotal, total) is not written to the row
ApplyVals(r, vals) ==
    [nombre          |-> Get(vals, "nombre", r.nombre),
     descripcion     |-> Get(vals, "descripcion", r.descripcion),
     precio_unitario |-> Get(vals, "precio_unitario", r.precio_unitario),
     cantidad        |-> Get(vals, "cantidad", r.cantidad),
     subtotal        |-> r.subtotal,
     iva             |-> Get(vals, "iva", r.iva),
     total           |-> r.total,
     activo          |-> Get(vals, "activo", r.activo),
     categoria_id    |-> Get(vals, "categoria_id", r.categoria_id),
     tipo            |-> Get(vals, "tipo", r.tipo)]

\* A transaction in progress: the rows as the transaction sees them, the
\* next id of the sequence, the exception raised so far ("ok": none) and
\* the ids it has created.
Begin(d, nid) == [db |-> d, nid |-> nid, res |-> "ok", new |-> {}]

\* Producto.create(vals) for one dict: super().create(vals).  The INSERT
\* takes the next id of the sequence, then checks NOT NULL and
\* unique(nombre); the constraint methods run after it.  The sequence is
\* outside the transaction: a refused INSERT has taken its id all the same.
create(st, vals) ==
    LET row == Row(AddMissingDefaults(vals))
        d2  == Extend(st.db, st.nid, row)
    IN  IF st.res # "ok" THEN st
        ELSE IF ~nombre_required(d2) \/ ~nombre_uniq(d2)
             THEN [st EXCEPT !.res = "IntegrityError", !.nid = st.nid + 1]
        ELSE IF _check_valores({row})
             THEN [st EXCEPT !.res = "ValueError", !.nid = st.nid + 1]
        ELSE [db  |-> d2, nid |-> st.nid + 1, res |-> "ok",
              new |-> st.new \cup {st.nid}]

\* @api.model on a method named create: a list of dicts is created one
\* dict after the other
RECURSIVE model_create_single(_, _)
model_create_single(st, vals_list) ==
    IF vals_list = <<>> THEN st
    ELSE model_create_single(create(st, Head(vals_list)), Tail(vals_list))

\* Producto.write(vals) on the recordset self: super().write(vals).  The
\* constraint method runs when vals names one of its fields, before the
\* UPDATE is flushed (no dict of WriteVals fails both checks).
write(st, self, vals) ==
    LET ids == Range(self)
        d2  == [i \in DOMAIN st.db |->
                 IF i \in ids THEN Recompute(ApplyVals(st.db[i], vals))
                 ELSE st.db[i]]
    IN  IF st.res # "ok" \/ ids = {} THEN st
        ELSE IF /\ DOMAIN vals \cap {"precio_unitario", "cantidad"} # {}
                /\ _check_valores({d2[i] : i \in ids})
             THEN [st EXCEPT !.res = "ValueError"]
        ELSE IF ~nombre_required(d2) \/ ~nombre_uniq(d2)
             THEN [st EXCEPT !.res = "IntegrityError"]
        ELSE [st EXCEPT !.db = d2]

\* Producto.unlink() on the recordset self: super().unlink()
unlink(st, self) ==
    [st EXCEPT !.db = [i \in DOMAIN st.db \ Range(self) |-> st.db[i]]]

\* the recordset of every row of d, in some order
RECURSIVE Todos(_)
Todos(d) ==
    IF DOMAIN d = {} THEN <<>>
    ELSE LET i == CHOOSE x \in DOMAIN d : TRUE
         IN  <<i>> \o Todos([j \in DOMAIN d \ {i} |-> d[j]])

\* (mutant of action_marcar_inactivo) every record of the model is written
action_marcar_inactivo_todos(st, self) ==
    write(st, Todos(st.db), [activo |-> FALSE])

\* (mutant of action_marcar_inactivo) record.activo = not record.activo
RECURSIVE action_marcar_inactivo_toggle(_, _)
action_marcar_inactivo_toggle(st, self) ==
    IF self = <<>> THEN st
    ELSE LET i == Head(self)
         IN  action_marcar_inactivo_toggle(
                 write(st, <<i>>, [activo |-> ~st.db[i].activo]), Tail(self))

\* for record in self: record.activo = False   (each assignment is a write)
RECURSIVE action_marcar_inactivo(_, _)
action_marcar_inactivo(st, self) ==
    IF self = <<>> THEN st
    ELSE action_marcar_inactivo(write(st, <<Head(self)>>, [activo |-> FALSE]),
                                Tail(self))

action_abrir_wizard ==
    [type      |-> "ir.actions.act_window",
     res_model |-> "mi.modulo.wizard",
     view_mode |-> "form",
     target    |-> "new"]

\* the marker duplicar_producto appends to the name
CopyMarker == " (Copia)"

\* the dict duplicar_producto passes to create for record r
CopiaVals(r) ==
    [nombre          |-> r.nombre \o CopyMarker,
     descripcion     |-> r.descripcion,
     precio_unitario |-> r.precio_unitario,
     cantidad        |-> r.cantidad,
     iva             |-> r.iva,
     activo          |-> r.activo,
     categoria_id    |-> r.categoria_id,
     tipo            |-> r.tipo]

\* for record in self: self.create({...}), in the recordset's order
RECURSIVE duplicar_producto(_, _)
duplicar_producto(st, self) ==
    IF self = <<>> THEN st
    ELSE duplicar_producto(create(st, CopiaVals(st.db[Head(self)])),
                           Tail(self))

\* (mutant of productos_activos) search([]): the domain is dropped
productos_activos_todos(d) == DOMAIN d

\* self.search([("activo", "=", True)])
productos_activos(d) == {i \in DOMAIN d : d[i].activo = TRUE}

\* (mutant of _onchange_subtotal) the preview adds where it should multiply
_onchange_subtotal_suma(f) ==
    IF f.precio_unitario # 0 /\ f.cantidad # 0
    THEN [f EXCEPT !.subtotal = f.precio_unitario + f.cantidad,
                   !.cached = TRUE]
    ELSE f

\* _onchange_subtotal on the form's record f; 0 and 0.0 are falsy.  An
\* assignment to subtotal puts the value in the record's cache.
_onchange_subtotal(f) ==
    IF f.precio_unitario # 0 /\ f.cantidad # 0
    THEN [f EXCEPT !.subtotal = f.precio_unitario * f.cantidad,
                   !.cached = TRUE]
    ELSE f

\* The onchange call of the form with the values vals it shows, of which
\* precio_unitario or cantidad was edited.  subtotal is
\* compute="_compute_subtotal" and depends on both: setting the edited
\* value on the form's record drops subtotal from the record's cache, the
\* value the form showed included; then the onchange method runs; then the
\* values to show are read back, and a subtotal that is not in the cache is
\* computed by _compute_subtotal.
onchange(vals) ==
    LET rec == [precio_unitario |-> vals.precio_unitario,
                cantidad        |-> vals.cantidad,
                subtotal        |-> vals.subtotal,
                cached          |-> FALSE]
        m   == _onchange_subtotal(rec)
    IN  IF m.cached THEN m
        ELSE [m EXCEPT !.subtotal = _compute_subtotal(m).subtotal,
                       !.cached = TRUE]

(* ------------------------------ inputs ------------------------------- *)

BaseNames == {"A", "A (Copia)"}

\* a dict that gives every stored field a value other than its default
AllGiven ==
    [nombre |-> "A (Copia)", descripcion |-> "d", precio_unitario |-> 20,
     cantidad |-> 3, iva |-> 0, activo |-> FALSE, categoria_id |-> 1,
     tipo |-> "digital"]

\* the dicts given to create
CreateVals ==
    {[nombre |-> n] : n \in BaseNames}
    \cup {AllGiven,
          [nombre |-> "A (Copia)", cantidad |-> -1],
          [nombre |-> "A (Copia)", precio_unitario |-> -5],
          [cantidad |-> 3]}

\* create called with one dict, or with a list of two
CreateInputs ==
    {<<v>> : v \in CreateVals}
    \cup {<<[nombre |-> "A"], w>> :
            w \in {AllGiven, [nombre |-> "A (Copia)", cantidad |-> -1],
                   [nombre |-> "A"]}}

\* the dicts given to write
WriteVals ==
    {[precio_unitario |-> 0], [precio_unitario |-> -5], [cantidad |-> -1],
     [activo |-> TRUE], [nombre |-> "A (Copia)"], [nombre |-> NULL],
     [subtotal |-> 99]}

\* the names given when the calls are about names only: the empty string
\* is one of them
Nombres == {"A", "", "A (Copia)"}

\* create called with a name alone, or with no name
NombreCreateInputs ==
    {<<[nombre |-> n]>> : n \in Nombres} \cup {<<[descripcion |-> "d"]>>}

\* write called with a name alone, or with no name (False)
NombreWriteVals == {[nombre |-> n] : n \in Nombres \cup {NULL}}

\* the values typed into the form
FormPrecios == {-5, 0, 10, 20}
FormCantidades == {-1, 0, 1, 3}

(* ------------------------------ actions ------------------------------ *)

EmptyDb == [i \in {} |-> 0]

Result(op, ids, vals_list, res, ret, recs) ==
    [op |-> op, ids |-> ids, vals |-> vals_list, res |-> res, ret |-> ret,
     recs |-> recs]

\* the form of a new record, showing the defaults
FormNew ==
    [precio_unitario |-> FieldDefaults.precio_unitario,
     cantidad        |-> default_get({"cantidad"}).cantidad,
     subtotal        |-> FieldDefaults.precio_unitario
                           * default_get({"cantidad"}).cantidad,
     dirty           |-> FALSE]

Init ==
    /\ db = EmptyDb
    /\ next_id = 1
    /\ last = Result("init", <<>>, <<>>, "ok", "None", {})
    /\ form = FormNew

\* The transaction st ends: committed when no exception was raised, rolled
\* back otherwise.  A rollback leaves the rows as they were but does not
\* give back the ids the transaction took from the sequence.  The sequence
\* hands out MaxIds ids at most.
Commit(st, op, ids, vals_list, ret, recs) ==
    /\ st.nid <= MaxIds + 1
    /\ next_id' = st.nid
    /\ IF st.res = "ok"
       THEN /\ db' = st.db
            /\ last' = Result(op, ids, vals_list, "ok", ret, recs)
       ELSE /\ db' = db
            /\ last' = Result(op, ids, vals_list, st.res, "raise", {})

\* the orderings of the ids S
RECURSIVE Orderings(_)
Orderings(S) ==
    IF S = {} THEN {<<>>}
    ELSE UNION {{<<x>> \o t : t \in Orderings(S \ {x})} : x \in S}

\* the non-empty recordsets of existing records, in every order
Recordsets == UNION {Orderings(S) : S \in (SUBSET DOMAIN db) \ {{}}}

\* those of them in ascending id, as browse(sorted(ids)) gives them: the
\* recordsets given to the methods that do not loop over self themselves
RecordsetsById ==
    {self \in Recordsets :
        \A k \in 1..(Len(self) - 1) : self[k] < self[k + 1]}

\* a call of create with one of inputs
CreateOf(inputs) ==
    \E vals_list \in inputs :
        LET st == model_create_single(Begin(db, next_id), vals_list)
        IN  /\ Commit(st, "create", <<>>, vals_list, "records", st.new)
            /\ UNCHANGED form

\* a call of write with one of valss
WriteOf(valss) ==
    \E ids \in RecordsetsById, vals \in valss :
        LET st == write(Begin(db, next_id), ids, vals)
        IN  /\ Commit(st, "write", ids, <<vals>>, "True", {})
            /\ UNCHANGED form

Create == CreateOf(CreateInputs)

Write == WriteOf(WriteVals)

Unlink ==
    \E ids \in RecordsetsById :
        LET st == unlink(Begin(db, next_id), ids)
        IN  /\ Commit(st, "unlink", ids, <<>>, "True", {})
            /\ UNCHANGED form

MarcarInactivo ==
    \E ids \in Recordsets :
        LET st == action_marcar_inactivo(Begin(db, next_id), ids)
        IN  /\ Commit(st, "action_marcar_inactivo", ids, <<>>, "True", {})
            /\ UNCHANGED form

AbrirWizard ==
    \E ids \in RecordsetsById :
        /\ Commit(Begin(db, next_id), "action_abrir_wizard", ids, <<>>,
                  action_abrir_wizard.type, {})
        /\ UNCHANGED form

DuplicarProducto ==
    \E ids \in Recordsets :
        LET st == duplicar_producto(Begin(db, next_id), ids)
        IN  /\ Commit(st, "duplicar_producto", ids, <<>>, "None", {})
            /\ UNCHANGED form

ProductosActivos ==
    /\ Commit(Begin(db, next_id), "productos_activos", <<>>, <<>>,
              "records",
              productos_activos(db))
    /\ UNCHANGED form

Next ==
    \/ Create
    \/ Write
    \/ Unlink
    \/ MarcarInactivo
    \/ AbrirWizard
    \/ DuplicarProducto
    \/ ProductosActivos

Spec == Init /\ [][Next]_vars

(* ------------------- the calls that are about names ------------------ *)

CreateNombre == CreateOf(NombreCreateInputs)

WriteNombre == WriteOf(NombreWriteVals)

\* create, write, duplicar_producto, action_marcar_inactivo and unlink,
\* with create and write given names only
NextNombres ==
    \/ CreateNombre
    \/ WriteNombre
    \/ DuplicarProducto
    \/ MarcarInactivo
    \/ Unlink

SpecNombres == Init /\ [][NextNombres]_vars

(* ----------------------- the form (onchange) ------------------------- *)

\* The form opened on a saved record (showing its computed subtotal) or on
\* a new one.
InitForm ==
    /\ next_id = 2
    /\ last = Result("init", <<>>, <<>>, "ok", "None", {})
    /\ \E p \in FormPrecios, q \in FormCantidades :
          /\ p >= 0 /\ q >= 0
          /\ db = Extend(EmptyDb, 1,
                     Row(AddMissingDefaults(
                         [nombre |-> "A", precio_unitario |-> p,
                          cantidad |-> q])))
          /\ form = [precio_unitario |-> db[1].precio_unitario,
                     cantidad        |-> db[1].cantidad,
                     subtotal        |-> db[1].subtotal,
                     dirty           |-> FALSE]

\* the user types a price or a quantity; nothing is saved
FormEditPrecio ==
    /\ ~form.dirty
    /\ \E p \in FormPrecios \ {form.precio_unitario} :
          form' = [form EXCEPT !.precio_unitario = p, !.dirty = TRUE]
    /\ UNCHANGED <<db, next_id, last>>

FormEditCantidad ==
    /\ ~form.dirty
    /\ \E q \in FormCantidades \ {form.cantidad} :
          form' = [form EXCEPT !.cantidad = q, !.dirty = TRUE]
    /\ UNCHANGED <<db, next_id, last>>

\* the values the form shows, as it sends them to onchange
FormVals ==
    [precio_unitario |-> form.precio_unitario, cantidad |-> form.cantidad,
     subtotal |-> form.subtotal]

\* @api.onchange("precio_unitario", "cantidad"): the form sends what it
\* shows and shows what comes back; nothing is saved
Onchange ==
    /\ form.dirty
    /\ LET r == onchange(FormVals)
       IN  form' = [precio_unitario |-> r.precio_unitario,
                    cantidad        |-> r.cantidad,
                    subtotal        |-> r.subtotal,
                    dirty           |-> FALSE]
    /\ last' = Result("onchange", <<>>, <<FormVals>>, "ok", "None", {})
    /\ UNCHANGED <<db, next_id>>

NextForm ==
    \/ FormEditPrecio
    \/ FormEditCantidad
    \/ Onchange

SpecForm == InitForm /\ [][NextForm]_vars

(* ------------------------------ claims ------------------------------- *)

\* create hands out consecutive ids: the first id of those it returned
Min(S) == CHOOSE x \in S : \A y \in S : x <= y

\* the methods the spec calls the core operations
CoreOps ==
    {"action_marcar_inactivo", "duplicar_producto", "productos_activos",
     "action_abrir_wizard"}

Negative(v) ==
    Get(v, "precio_unitario", 0) < 0 \/ Get(v, "cantidad", 0) < 0

\* the call recorded in l is a create or a write that leaves one of its
\* records with a negative precio_unitario or cantidad
EndsNegative(l) ==
    \/ l.op = "create" /\ \E k \in DOMAIN l.vals : Negative(l.vals[k])
    \/ l.op = "write" /\ l.ids # <<>> /\ Negative(l.vals[1])

\* every committed row has precio_unitario >= 0 and cantidad >= 0
AllRowsValid ==
    \A i \in DOMAIN db : db[i].precio_unitario >= 0 /\ db[i].cantidad >= 0

\* C1: a create or write that leaves a record with a negative
\* precio_unitario or cantidad fails with a ValidationError and leaves every
\* committed row as it was.
C1_NegativeFailsWithValidationError ==
    [][EndsNegative(last') =>
          (last'.res = "ValidationError" /\ db' = db)]_vars

\* (C1, what the code does) such a call raises, ValueError from
\* _check_valores or the INSERT's IntegrityError, and commits nothing.
C1_NegativeRaisesAndCommitsNothing ==
    [][EndsNegative(last') =>
          (last'.res \in {"ValueError", "IntegrityError"} /\ db' = db)]_vars

\* C2: in every committed state every product has
\* subtotal = precio_unitario * cantidad and
\* total = subtotal * (1 + iva / 100)  (total in hundredths).
C2_DerivedFieldsConsistent ==
    \A i \in DOMAIN db :
        /\ db[i].subtotal = db[i].precio_unitario * db[i].cantidad
        /\ db[i].total = db[i].subtotal * (100 + db[i].iva)

\* a write of precio_unitario alone has just taken a default record
\* (10 x 1) to price 0: subtotal and total both followed
C2_Witness ==
    /\ last.op = "write" /\ last.res = "ok"
    /\ DOMAIN last.vals[1] = {"precio_unitario"}
    /\ \E i \in Range(last.ids) \cap DOMAIN db :
          /\ db[i].cantidad = 1 /\ db[i].iva = 21
          /\ db[i].subtotal = 0 /\ db[i].total = 0

\* C3: whatever precio_unitario and cantidad the edited form holds (zero
\* included) and whatever subtotal it showed, after the onchange of the
\* form (_onchange_subtotal) the form's subtotal is the value
\* _compute_subtotal gives for the form's precio_unitario and cantidad,
\* these two are as they were typed, and nothing is committed.
C3_OnchangeMatchesCompute ==
    [][(form.dirty /\ ~form'.dirty) =>
          /\ form'.subtotal = _compute_subtotal(form').subtotal
          /\ form'.precio_unitario = form.precio_unitario
          /\ form'.cantidad = form.cantidad
          /\ db' = db /\ next_id' = next_id]_vars

\* the onchange has run on a form that showed 10 x 1 = 10 and whose
\* cantidad was then set to 0, the case in which _onchange_subtotal assigns
\* nothing: the form shows 0
C3_Witness ==
    /\ last.op = "onchange" /\ ~form.dirty
    /\ last.vals[1].precio_unitario = 10 /\ last.vals[1].cantidad = 0
    /\ last.vals[1].subtotal = 10
    /\ form.precio_unitario = 10 /\ form.cantidad = 0 /\ form.subtotal = 0

\* row n of d2 is the copy duplicar_producto makes of row o of d1
IsCopy(d1, o, d2, n) ==
    /\ d2[n].nombre = d1[o].nombre \o CopyMarker
    /\ d2[n].descripcion = d1[o].descripcion
    /\ d2[n].precio_unitario = d1[o].precio_unitario
    /\ d2[n].cantidad = d1[o].cantidad
    /\ d2[n].iva = d1[o].iva
    /\ d2[n].activo = d1[o].activo
    /\ d2[n].categoria_id = d1[o].categoria_id
    /\ d2[n].tipo = d1[o].tipo
    /\ d2[n].subtotal = d2[n].precio_unitario * d2[n].cantidad
    /\ d2[n].total = d2[n].subtotal * (100 + d2[n].iva)

\* C4: duplicar_producto on one record adds exactly one product, named as
\* the original followed by the copy marker, with the original's
\* descripcion, precio_unitario, cantidad, iva, activo, categoria_id and
\* tipo and with subtotal and total computed from its own values; the
\* original is unchanged.  (The marker is the code's " (Copia)", which the
\* spec renders as " (Copy)".)
C4_DuplicateAddsOneCopy ==
    [][(last'.op = "duplicar_producto" /\ Len(last'.ids) = 1) =>
          \E o \in Range(last'.ids) :
              /\ \A i \in DOMAIN db : i \in DOMAIN db' /\ db'[i] = db[i]
              /\ \E n \in DOMAIN db' \ DOMAIN db :
                    /\ DOMAIN db' = DOMAIN db \cup {n}
                    /\ IsCopy(db, o, db', n)]_vars

\* (C4, what the code does) the same for a call that did not raise
C4_DuplicateAddsOneCopyUnlessRaised ==
    [][(last'.op = "duplicar_producto" /\ Len(last'.ids) = 1
            /\ last'.res = "ok") =>
          \E o \in Range(last'.ids) :
              /\ \A i \in DOMAIN db : i \in DOMAIN db' /\ db'[i] = db[i]
              /\ \E n \in DOMAIN db' \ DOMAIN db :
                    /\ DOMAIN db' = DOMAIN db \cup {n}
                    /\ IsCopy(db, o, db', n)]_vars

\* C5: in every committed state every product has a non-empty name (not
\* NULL and not the empty string) and no two products have the same name.
C5_NamesPresentAndUnique ==
    /\ \A i \in DOMAIN db : db[i].nombre # NULL /\ Len(db[i].nombre) > 0
    /\ \A i \in DOMAIN db : \A j \in DOMAIN db \ {i} :
          db[i].nombre # db[j].nombre

\* (C5, what the code does) every product's name is not NULL and no two
\* products have the same name
C5_NamesNotNullAndUnique ==
    /\ \A i \in DOMAIN db : db[i].nombre # NULL
    /\ \A i \in DOMAIN db : \A j \in DOMAIN db \ {i} :
          db[i].nombre # db[j].nombre

\* C6: action_marcar_inactivo, duplicar_producto, productos_activos and
\* action_abrir_wizard on existing valid records always succeed.
C6_CoreOperationsAlwaysSucceed ==
    (last.op \in CoreOps /\ AllRowsValid) => last.res = "ok"

\* C7: action_marcar_inactivo on the records ids sets activo = False on
\* each of them, changes no other field of them, changes no other product,
\* and returns True.
C7_MarcarInactivoFrame ==
    [][last'.op = "action_marcar_inactivo" =>
          /\ last'.res = "ok" /\ last'.ret = "True"
          /\ DOMAIN db' = DOMAIN db
          /\ \A i \in DOMAIN db :
                db'[i] = IF i \in Range(last'.ids)
                         THEN [db[i] EXCEPT !.activo = FALSE]
                         ELSE db[i]]_vars

\* action_marcar_inactivo has just run on one record, which carries
\* values other than the defaults, while another product is still active
C7_Witness ==
    /\ last.op = "action_marcar_inactivo" /\ last.ret = "True"
    /\ \E i \in Range(last.ids) : \E j \in DOMAIN db \ Range(last.ids) :
          /\ db[i].activo = FALSE /\ db[i].descripcion = "d"
          /\ db[i].tipo = "digital" /\ db[i].categoria_id = 1
          /\ db[j].activo = TRUE

\* C8: productos_activos returns exactly the existing products with
\* activo = True and changes no record.
C8_ProductosActivosExact ==
    [][last'.op = "productos_activos" =>
          /\ last'.res = "ok"
          /\ db' = db
          /\ \A i \in DOMAIN db : db[i].activo = TRUE => i \in last'.recs
          /\ \A i \in last'.recs : i \in DOMAIN db /\ db[i].activo = TRUE]_vars

\* productos_activos has just returned one product while another product
\* is inactive
C8_Witness ==
    /\ last.op = "productos_activos"
    /\ Cardinality(last.recs) = 1
    /\ \E i \in DOMAIN db : db[i].activo = FALSE

\* C9: create gives every field missing from vals its default
\* (precio_unitario 10.0, cantidad 1, iva 21, activo True, tipo fisico) and
\* every stored field of vals the value given; a create with only a name
\* has subtotal 10.0 and total 12.1; a cantidad given is kept.
C9_CreateAppliesDefaults ==
    (last.op = "create" /\ last.res = "ok") =>
        /\ Cardinality(last.recs) = Len(last.vals)
        /\ \A k \in 1..Len(last.vals) :
              LET v == last.vals[k]
                  r == db[Min(last.recs) + k - 1]
              IN  /\ \A f \in DOMAIN v \cap StoredFields : r[f] = v[f]
                  /\ "precio_unitario" \notin DOMAIN v
                        => r.precio_unitario = 10
                  /\ "cantidad" \notin DOMAIN v => r.cantidad = 1
                  /\ "iva" \notin DOMAIN v => r.iva = 21
                  /\ "activo" \notin DOMAIN v => r.activo = TRUE
                  /\ "tipo" \notin DOMAIN v => r.tipo = "fisico"
                  /\ DOMAIN v = {"nombre"}
                        => r.subtotal = 10 /\ r.total = 1210

\* one create has just made a record from a name alone and a record whose
\* vals give cantidad = 3
C9_Witness ==
    /\ last.op = "create" /\ last.res = "ok"
    /\ \E k \in 1..Len(last.vals) : DOMAIN last.vals[k] = {"nombre"}
    /\ \E k \in 1..Len(last.vals) :
          /\ "cantidad" \in DOMAIN last.vals[k]
          /\ db[Min(last.recs) + k - 1].cantidad = 3

\* C10: a step of action_marcar_inactivo, duplicar_producto,
\* productos_activos or action_abrir_wizard keeps every existing product,
\* and keeps activo = False on every product that had it.
C10_NoCoreReactivation ==
    [][last'.op \in CoreOps =>
          \A i \in DOMAIN db :
              /\ i \in DOMAIN db'
              /\ db[i].activo = FALSE => db'[i].activo = FALSE]_vars

\* duplicar_producto has just copied a product that has activo = False
\* and, the call leaving it untouched, had it before the call
C10_Witness ==
    /\ last.op = "duplicar_producto" /\ last.res = "ok"
    /\ \E o \in Range(last.ids) : db[o].activo = FALSE

====
